---- MODULE Spec2Model ----
(***************************************************************************)
(* Model of src/server.js: the POST /analyze handler of the chunked        *)
(* premium backend.  One request is followed from the arrival of its body  *)
(* to its HTTP response.  The external generative model is the             *)
(* environment: it answers each generateContent call with a text, or the   *)
(* call fails.                                                             *)
(*                                                                         *)
(* A text is a sequence of fragments.  The fragment BT is one backtick,    *)
(* the fragments in JsonTags are the four letters j,s,o,n in some letter   *)
(* casing, the fragments in Whitespace are white space, every other        *)
(* fragment is a run of characters holding no backtick.                    *)
(***************************************************************************)
EXTENDS Integers, Sequences, FiniteSets, TLC

\* ------------------------------------------------------------------ bounds
\* Longest comments array a request carries.
MaxLen == 201

\* ------------------------------------------------------- program constants
\* server.js:163-164  for(let i=0;i<comments.length;i+=100) ... slice(i,i+100)
CHUNK_SIZE == 100

\* ------------------------------------------------------------------- texts
\* One backtick character (named, the lexer admits no backtick in a string).
BT == "BACKTICK"
JsonTags == {"json", "JSON", "Json"}
Whitespace == {" ", "\n"}

\* JSON documents of the chunk stage, as texts.
DocA == << "{\"pos\":60,\"neg\":30,\"neu\":10,\"praise\":[\"a\"],\"pain\":[\"b\"],\"themes\":[\"c\"]}" >>
DocB == << "{\"pos\":45,\"neg\":40,\"neu\":15,\"praise\":[\"a\",\"d\"],\"pain\":[],\"themes\":[\"c\"]}" >>
DocPartial == << "{\"neg\":20,\"praise\":[\"e\"]}" >>
DocNull == << "null" >>
DocNumber == << "7" >>
DocArray == << "[]" >>
\* A document whose praise string holds three backticks: ["x```"].
DocTicksHead == "{\"pos\":50,\"neg\":50,\"neu\":0,\"praise\":[\"x"
DocTicksTail == "\"],\"pain\":[],\"themes\":[]}"
DocTicks == << DocTicksHead, BT, BT, BT, DocTicksTail >>
\* JSON documents of the synthesis stage.
DocReport == << "{\"positivePercentage\":99,\"negativePercentage\":1,\"neutralPercentage\":0,\"sentimentSummary_premium\":\"s\"}" >>
DocReportBare == << "{\"sentimentSummary_premium\":\"s\"}" >>
NotJson == << "NOT", " ", "JSON" >>

\* A document wrapped in markdown fences: ```tag \n doc \n ```
\* (tag = "" is the bare fence).
Fenced(tag, doc) ==
    << BT, BT, BT >> \o (IF tag = "" THEN <<>> ELSE << tag >>) \o << "\n" >>
        \o doc \o << "\n", BT, BT, BT >>

\* -------------------------------------------------------------- JS numbers
\* A JS number met here is NaN or the rational num/den (den > 0).
Num(n) == [nan |-> FALSE, num |-> n, den |-> 1]
NaN == [nan |-> TRUE, num |-> 0, den |-> 1]

\* ------------------------------------------------------------- JSON values
\* One record shape for every value JSON.parse yields here; `has` is the set
\* of own properties an object carries.
JsonValue(kind, has, pos, neg, neu, praise, pain, themes, pp, np, up, summary) ==
    [kind |-> kind, has |-> has, pos |-> pos, neg |-> neg, neu |-> neu,
     praise |-> praise, pain |-> pain, themes |-> themes,
     positivePercentage |-> Num(pp), negativePercentage |-> Num(np),
     neutralPercentage |-> Num(up), sentimentSummary_premium |-> summary]

ChunkFields == {"pos", "neg", "neu", "praise", "pain", "themes"}
PctFields == {"positivePercentage", "negativePercentage", "neutralPercentage"}

PartialObject(has, pos, neg, neu, praise, pain, themes) ==
    JsonValue("object", has, pos, neg, neu, praise, pain, themes, 0, 0, 0, "")

Scalar(kind) == JsonValue(kind, {}, 0, 0, 0, <<>>, <<>>, <<>>, 0, 0, 0, "")

\* The value not yet produced (an unsettled promise).
Pending == Scalar("pending")

\* JSON.parse skips white space around the document.
RECURSIVE SkipLeadingWs(_)
SkipLeadingWs(t) ==
    IF t # <<>> /\ Head(t) \in Whitespace THEN SkipLeadingWs(Tail(t)) ELSE t

RECURSIVE SkipTrailingWs(_)
SkipTrailingWs(t) ==
    IF t # <<>> /\ t[Len(t)] \in Whitespace
    THEN SkipTrailingWs(SubSeq(t, 1, Len(t) - 1)) ELSE t

\* JSON.parse(text): [ok |-> TRUE, value |-> v], or ok = FALSE for the
\* SyntaxError it throws.
JSONparse(text) ==
    LET t == SkipTrailingWs(SkipLeadingWs(text))
        Ok(v) == [ok |-> TRUE, value |-> v, message |-> ""]
    IN  IF t = DocA THEN
            Ok(PartialObject(ChunkFields, 60, 30, 10, <<"a">>, <<"b">>, <<"c">>))
        ELSE IF t = DocB THEN
            Ok(PartialObject(ChunkFields, 45, 40, 15, <<"a", "d">>, <<>>, <<"c">>))
        ELSE IF t = DocPartial THEN
            Ok(PartialObject({"neg", "praise"}, 0, 20, 0, <<"e">>, <<>>, <<>>))
        ELSE IF t = DocTicks THEN
            Ok(PartialObject(ChunkFields, 50, 50, 0, <<"x+BACKTICK+BACKTICK+BACKTICK">>, <<>>, <<>>))
        ELSE IF t = << DocTicksHead, DocTicksTail >> THEN
            Ok(PartialObject(ChunkFields, 50, 50, 0, <<"x">>, <<>>, <<>>))
        ELSE IF t = DocReport THEN
            Ok(JsonValue("object", PctFields \cup {"sentimentSummary_premium"},
                         0, 0, 0, <<>>, <<>>, <<>>, 99, 1, 0, "s"))
        ELSE IF t = DocReportBare THEN
            Ok(JsonValue("object", {"sentimentSummary_premium"},
                         0, 0, 0, <<>>, <<>>, <<>>, 0, 0, 0, "s"))
        ELSE IF t = DocNull THEN Ok(Scalar("null"))
        ELSE IF t = DocNumber THEN Ok(Scalar("number"))
        ELSE IF t = DocArray THEN Ok(Scalar("array"))
        ELSE [ok |-> FALSE, value |-> Pending, message |-> "SyntaxError"]

\* raw.replace(/```json/gi,""): every three backticks followed by the letters
\* json in any casing are removed, scanning left to right.
RECURSIVE StripJsonFences(_)
StripJsonFences(t) ==
    IF t = <<>> THEN <<>>
    ELSE IF Len(t) >= 4 /\ t[1] = BT /\ t[2] = BT /\ t[3] = BT /\ t[4] \in JsonTags
         THEN StripJsonFences(SubSeq(t, 5, Len(t)))
         ELSE << Head(t) >> \o StripJsonFences(Tail(t))

\* .replace(/```/g,""): every run of three backticks is removed.
RECURSIVE StripFences(_)
StripFences(t) ==
    IF t = <<>> THEN <<>>
    ELSE IF Len(t) >= 3 /\ t[1] = BT /\ t[2] = BT /\ t[3] = BT
         THEN StripFences(SubSeq(t, 4, Len(t)))
         ELSE << Head(t) >> \o StripFences(Tail(t))

\* .trim()
Trim(t) == SkipTrailingWs(SkipLeadingWs(t))

\* const clean = raw.replace(/```json/gi,"").replace(/```/g,"").trim();
Clean(raw) == Trim(StripFences(StripJsonFences(raw)))

\* ----------------------------------------------------------------- chunker
Min(a, b) == IF a < b THEN a ELSE b

\* Array.prototype.slice(start, end) for 0 <= start <= end.
Slice(arr, start, end) == SubSeq(arr, start + 1, Min(end, Len(arr)))

\* for(let i=0;i<comments.length;i+=100){ chunks.push(comments.slice(i,i+100)); }
\* Mutant: the loop runs once more when i reaches comments.length.
RECURSIVE ChunkLoopInclusive(_, _, _)
ChunkLoopInclusive(comments, i, acc) ==
    IF i <= Len(comments)
    THEN ChunkLoopInclusive(comments, i + CHUNK_SIZE,
                            Append(acc, Slice(comments, i, i + CHUNK_SIZE)))
    ELSE acc

RECURSIVE ChunkLoop(_, _, _)
ChunkLoop(comments, i, acc) ==
    IF i < Len(comments)
    THEN ChunkLoop(comments, i + CHUNK_SIZE,
                   Append(acc, Slice(comments, i, i + CHUNK_SIZE)))
    ELSE acc

SplitChunks(comments) == ChunkLoop(comments, 0, <<>>)

\* ------------------------------------------------------------ chunk stage
\* What the external model does with one generateContent call.
TextReply(text) == [ok |-> TRUE, text |-> text, message |-> ""]
FailedReply == [ok |-> FALSE, text |-> <<>>, message |-> "UpstreamError"]
\* A call that has not completed.
NoReply == [ok |-> FALSE, text |-> <<>>, message |-> ""]

Fulfilled(v) == [state |-> "fulfilled", value |-> v, message |-> ""]
Rejected(m) == [state |-> "rejected", value |-> Pending, message |-> m]

\* Mutant: the fallback counts the chunk as wholly neutral.
FallbackNeutral == PartialObject(ChunkFields, 0, 0, 100, <<>>, <<>>, <<>>)

\* return { pos:0, neg:0, neu:0, praise:[], pain:[], themes:[] };
FallbackPartial == PartialObject(ChunkFields, 0, 0, 0, <<>>, <<>>, <<>>)

\* Mutant: the parse error is logged and thrown again.
RunChunkRethrow(reply) ==
    IF ~reply.ok THEN Rejected(reply.message)
    ELSE LET parsed == JSONparse(Clean(reply.text))
         IN  IF parsed.ok THEN Fulfilled(parsed.value)
             ELSE Rejected(parsed.message)

\* runChunk from the completion of its generateContent call on: the promise
\* it returns is fulfilled with the parsed value or the fallback, or rejected
\* with the error of the call.
RunChunk(reply) ==
    IF ~reply.ok THEN Rejected(reply.message)
    ELSE LET parsed == JSONparse(Clean(reply.text))
         IN  IF parsed.ok THEN Fulfilled(parsed.value)
             ELSE Fulfilled(FallbackPartial)

\* Mutant: only the first chunk's call is issued before the handler awaits.
DispatchFirstOnly(cs) == [i \in 1..Len(cs) |-> IF i = 1 THEN 1 ELSE 0]

\* chunks.map(runChunk): every runChunk runs up to its await, so every chunk's
\* generateContent call is issued, once, before the handler awaits.
Dispatch(cs) == [i \in 1..Len(cs) |-> 1]

\* Mutant: the values are collected in the order the tasks settled.
PromiseAllBySettlement(values, order) ==
    [k \in 1..Len(values) |-> values[order[k]]]

\* Promise.all: the values of the tasks, in the order of the tasks; `order`
\* is the order in which the tasks settled.
PromiseAll(values, order) == [k \in 1..Len(values) |-> values[k]]

\* -------------------------------------------------------------- aggregator
\* ToNumber(p[f]): a missing property is undefined, and s + undefined is NaN.
PropNumber(p, f) == IF f \in p.has THEN Num(p[f]) ELSE NaN

Plus(a, b) == IF a.nan \/ b.nan THEN NaN ELSE Num(a.num + b.num)

\* partials.reduce((s,p)=>s+p[f],0)
RECURSIVE Reduce(_, _, _, _)
Reduce(ps, f, k, s) ==
    IF k > Len(ps) THEN s
    ELSE Reduce(ps, f, k + 1, Plus(s, PropNumber(ps[k], f)))

\* sum / partials.length   (0/0 is NaN)
Divide(s, n) ==
    IF s.nan \/ n = 0 THEN NaN ELSE [nan |-> FALSE, num |-> s.num, den |-> n]

\* partials.flatMap(p=>p[f]||[])
RECURSIVE FlatMap(_, _, _)
FlatMap(ps, f, k) ==
    IF k > Len(ps) THEN <<>>
    ELSE (IF f \in ps[k].has THEN ps[k][f] ELSE <<>>) \o FlatMap(ps, f, k + 1)

\* p.pos on a null p throws a TypeError.
AggregateThrows(ps) == \E k \in 1..Len(ps) : ps[k].kind = "null"

NoAggregate ==
    [posAvg |-> NaN, negAvg |-> NaN, neuAvg |-> NaN,
     praise |-> <<>>, pain |-> <<>>, themes |-> <<>>]

\* const aggregate = {posAvg, negAvg, neuAvg, praise, pain, themes};
Aggregate(ps) ==
    [posAvg |-> Divide(Reduce(ps, "pos", 1, Num(0)), Len(ps)),
     negAvg |-> Divide(Reduce(ps, "neg", 1, Num(0)), Len(ps)),
     neuAvg |-> Divide(Reduce(ps, "neu", 1, Num(0)), Len(ps)),
     praise |-> FlatMap(ps, "praise", 1),
     pain |-> FlatMap(ps, "pain", 1),
     themes |-> FlatMap(ps, "themes", 1)]

\* Math.round: the nearest integer, halves towards +Infinity.
MathRound(x) ==
    IF x.nan THEN NaN ELSE Num((2 * x.num + x.den) \div (2 * x.den))

\* --------------------------------------------------------- synthesis stage
\* Mutant: a parse failure of the synthesis response is replaced by an empty
\* report, as runChunk does for a chunk.
RunFinalPremiumFallback(reply) ==
    IF ~reply.ok THEN Rejected(reply.message)
    ELSE LET parsed == JSONparse(Clean(reply.text))
         IN  IF parsed.ok THEN Fulfilled(parsed.value)
             ELSE Fulfilled(JsonValue("object", {}, 0, 0, 0, <<>>, <<>>, <<>>,
                                      0, 0, 0, ""))

\* runFinalPremium from the completion of its generateContent call on.
RunFinalPremium(reply) ==
    IF ~reply.ok THEN Rejected(reply.message)
    ELSE LET parsed == JSONparse(Clean(reply.text))
         IN  IF parsed.ok THEN Fulfilled(parsed.value)
             ELSE Rejected(parsed.message)

\* final.positivePercentage = ... on null, or (module code is strict) on a
\* primitive, throws a TypeError.
AssignThrows(final) == final.kind \notin {"object", "array"}

\* final.positivePercentage = Math.round(posAvg); ... (lines 185-187)
AssignPercentages(final, agg) ==
    [final EXCEPT !.has = @ \cup PctFields,
                  !.positivePercentage = MathRound(agg.posAvg),
                  !.negativePercentage = MathRound(agg.negAvg),
                  !.neutralPercentage = MathRound(agg.neuAvg)]

\* ------------------------------------------------------------ HTTP response
\* A number as JSON.stringify writes it: NaN becomes null.
Absent == [t |-> "absent", n |-> 0]
JsonNumber(x) ==
    IF x.nan THEN [t |-> "null", n |-> 0]
    ELSE [t |-> "number", n |-> x.num \div x.den]

\* data as the caller reads it from the body res.json wrote: of an array only
\* the elements are written, not its named properties.
Serialise(final) ==
    LET Prop(f) == IF final.kind = "object" /\ f \in final.has
                   THEN JsonNumber(final[f]) ELSE Absent
    IN  [kind |-> final.kind,
         positivePercentage |-> Prop("positivePercentage"),
         negativePercentage |-> Prop("negativePercentage"),
         neutralPercentage |-> Prop("neutralPercentage"),
         sentimentSummary_premium |-> final.sentimentSummary_premium]

NoData ==
    [kind |-> "none", positivePercentage |-> Absent,
     negativePercentage |-> Absent, neutralPercentage |-> Absent,
     sentimentSummary_premium |-> ""]

NoResponse == [status |-> 0, success |-> FALSE, error |-> "", data |-> NoData]
\* res.status(400).json({success:false,error:"No comments"})
BadRequest ==
    [status |-> 400, success |-> FALSE, error |-> "No comments", data |-> NoData]
\* res.status(500).json({success:false,error:err.message})
ServerError(m) ==
    [status |-> 500, success |-> FALSE, error |-> m, data |-> NoData]
\* res.json({success:true, data:final})
Success(final) ==
    [status |-> 200, success |-> TRUE, error |-> "", data |-> Serialise(final)]

\* ------------------------------------------------------------------ inputs
\* req.body.comments: absent, null, or an array of comments (the comments are
\* opaque; the i-th comment of a request is named i).
Bodies ==
    {[kind |-> "undefined", items |-> <<>>], [kind |-> "null", items |-> <<>>]}
    \cup {[kind |-> "array", items |-> [i \in 1..L |-> i]] : L \in 0..MaxLen}

\* Texts the external model answers a chunk prompt with.
RawChunk ==
    {DocA, Fenced("json", DocB), Fenced("JSON", DocA), Fenced("", DocB),
     DocPartial, DocNull, Fenced("Json", DocTicks), NotJson}

\* Texts the external model answers the premium prompt with.
RawFinal ==
    {DocReport, Fenced("JSON", DocReport), Fenced("", DocReportBare),
     DocReportBare, DocArray, DocNull, DocNumber, NotJson}

\* ------------------------------------------------------------------- state
VARIABLES
    pc,          \* where the handler is: idle, awaitChunks, awaitFinal, done
    body,        \* req.body of the request
    chunks,      \* const chunks
    task,        \* task[i]: state of the promise runChunk(chunks[i]) returned
    taskValue,   \* taskValue[i]: the value that promise is fulfilled with
    chunkReply,  \* chunkReply[i]: how chunk i's generateContent call completed
    settled,     \* the chunk tasks in the order they settled
    partials,    \* const partials
    aggregate,   \* const aggregate
    finalReply,  \* how the synthesis generateContent call completed
    chunkCalls,  \* chunkCalls[i]: generateContent calls issued for chunk i
    finalCalls,  \* generateContent calls issued by runFinalPremium
    response     \* the HTTP response sent

vars == << pc, body, chunks, task, taskValue, chunkReply, settled, partials,
           aggregate, finalReply, chunkCalls, finalCalls, response >>

Init ==
    /\ pc = "idle"
    /\ body = [kind |-> "undefined", items |-> <<>>]
    /\ chunks = <<>>
    /\ task = <<>>
    /\ taskValue = <<>>
    /\ chunkReply = <<>>
    /\ settled = <<>>
    /\ partials = <<>>
    /\ aggregate = NoAggregate
    /\ finalReply = NoReply
    /\ chunkCalls = <<>>
    /\ finalCalls = 0
    /\ response = NoResponse

\* const {comments=[]} = req.body;
Destructure(b) ==
    IF b.kind = "undefined" THEN [kind |-> "array", items |-> <<>>] ELSE b

\* Mutant: the emptiness check lets every array through.
NoCommentsNever(comments) == Len(comments) < 0

\* !comments.length
NoComments(comments) == Len(comments) = 0

\* Lines 170-182, run when the barrier is fulfilled with ps: aggregate, then
\* issue the synthesis call; a TypeError goes to the catch.
Proceed(ps) ==
    /\ partials' = ps
    /\ IF AggregateThrows(ps)
       THEN /\ pc' = "done"
            /\ response' = ServerError("TypeError")
            /\ UNCHANGED << aggregate, finalCalls >>
       ELSE /\ pc' = "awaitFinal"
            /\ aggregate' = Aggregate(ps)
            /\ finalCalls' = finalCalls + 1
            /\ UNCHANGED response

\* app.post("/analyze") from the arrival of the request to its first await or
\* its response.
Analyze(b) ==
    /\ pc = "idle"
    /\ body' = b
    /\ UNCHANGED << settled, finalReply >>
    /\ LET comments == Destructure(b)
       IN  IF comments.kind = "null"
           THEN /\ pc' = "done"
                /\ response' = ServerError("TypeError")
                /\ UNCHANGED << chunks, task, taskValue, chunkReply, partials,
                                aggregate, chunkCalls, finalCalls >>
           ELSE IF NoComments(comments.items)
           THEN /\ pc' = "done"
                /\ response' = BadRequest
                /\ UNCHANGED << chunks, task, taskValue, chunkReply, partials,
                                aggregate, chunkCalls, finalCalls >>
           ELSE LET cs == SplitChunks(comments.items)
                IN  /\ chunks' = cs
                    /\ chunkCalls' = Dispatch(cs)
                    /\ task' = [i \in 1..Len(cs) |-> "inflight"]
                    /\ taskValue' = [i \in 1..Len(cs) |-> Pending]
                    /\ chunkReply' = [i \in 1..Len(cs) |-> NoReply]
                    \* Promise.all of no task is fulfilled at once.
                    /\ IF Len(cs) = 0
                       THEN Proceed(<<>>)
                       ELSE /\ pc' = "awaitChunks"
                            /\ UNCHANGED << partials, aggregate, finalCalls,
                                            response >>

\* Chunk i's generateContent call completes with `reply`: runChunk(chunks[i])
\* settles, and the handler continues if that settles the barrier.
ChunkSettles(i, reply) ==
    /\ i \in 1..Len(task)
    /\ task[i] = "inflight"
    /\ LET s == RunChunk(reply)
           values == [taskValue EXCEPT ![i] = s.value]
           states == [task EXCEPT ![i] = s.state]
           order == Append(settled, i)
       IN  /\ task' = states
           /\ taskValue' = values
           /\ settled' = order
           /\ chunkReply' = [chunkReply EXCEPT ![i] = reply]
           /\ IF pc # "awaitChunks"
              THEN UNCHANGED << pc, partials, aggregate, finalCalls, response >>
              ELSE IF s.state = "rejected"
              THEN /\ pc' = "done"
                   /\ response' = ServerError(s.message)
                   /\ UNCHANGED << partials, aggregate, finalCalls >>
              ELSE IF \A k \in 1..Len(states) : states[k] = "fulfilled"
              THEN Proceed(PromiseAll(values, order))
              ELSE UNCHANGED << pc, partials, aggregate, finalCalls, response >>
    /\ UNCHANGED << body, chunks, finalReply, chunkCalls >>

\* The external model answers chunk i's call with a text.
ChunkResponds(i, raw) == ChunkSettles(i, TextReply(raw))

\* Chunk i's call fails (network, quota, auth, a blocked response).
ChunkFails(i) == ChunkSettles(i, FailedReply)

\* The synthesis call completes with `reply`: lines 145-147 and 185-194.
FinalSettles(reply) ==
    /\ pc = "awaitFinal"
    /\ pc' = "done"
    /\ finalReply' = reply
    /\ LET s == RunFinalPremium(reply)
       IN  response' =
             IF s.state = "rejected" THEN ServerError(s.message)
             ELSE IF AssignThrows(s.value) THEN ServerError("TypeError")
             ELSE Success(AssignPercentages(s.value, aggregate))
    /\ UNCHANGED << body, chunks, task, taskValue, chunkReply, settled, partials,
                    aggregate, chunkCalls, finalCalls >>

FinalResponds(raw) == FinalSettles(TextReply(raw))

FinalFails == FinalSettles(FailedReply)

Next ==
    \/ \E b \in Bodies : Analyze(b)
    \/ \E i \in 1..Len(task), raw \in RawChunk : ChunkResponds(i, raw)
    \/ \E i \in 1..Len(task) : ChunkFails(i)
    \/ \E raw \in RawFinal : FinalResponds(raw)
    \/ FinalFails

Spec == Init /\ [][Next]_vars

\* ================================================================== claims
RECURSIVE Concat(_)
Concat(ss) == IF ss = <<>> THEN <<>> ELSE Head(ss) \o Concat(Tail(ss))

\* The request carried a non-empty comments array and has been taken up.
NonEmptyRequest ==
    pc # "idle" /\ body.kind = "array" /\ Len(body.items) > 0

\* The barrier of the chunk tasks was fulfilled (line 168 assigned partials).
BarrierFulfilled ==
    /\ NonEmptyRequest
    /\ \A k \in 1..Len(task) : task[k] = "fulfilled"

\* C1: a non-empty comment sequence of length L is split into exactly
\* ceil(L/100) chunks, each non-empty and of at most 100 comments, whose
\* concatenation in order is the original sequence; once the chunk tasks
\* have all been waited for there is exactly one PartialResult per chunk.
C1_ChunkerPartition ==
    NonEmptyRequest =>
        /\ Len(chunks) = (Len(body.items) + 99) \div 100
        /\ \A k \in 1..Len(chunks) : Len(chunks[k]) >= 1 /\ Len(chunks[k]) <= 100
        /\ Concat(chunks) = body.items
        /\ BarrierFulfilled =>
              /\ Len(partials) = Len(chunks)
              /\ \A k \in 1..Len(partials) : partials[k] # Pending

\* Witness of C1: 201 comments were split into 100 + 100 + 1 and the three
\* PartialResults are in.
C1_Witness ==
    /\ BarrierFulfilled
    /\ Len(body.items) = 201
    /\ Len(chunks) = 3
    /\ Len(chunks[3]) = 1
    /\ Len(partials) = 3

\* No generateContent call has been issued for the request.
NoExternalCall ==
    /\ finalCalls = 0
    /\ \A i \in 1..Len(chunkCalls) : chunkCalls[i] = 0

\* C3: a request whose comments field is absent or an empty list is answered
\* 400 {success:false, error:"No comments"} and no external call, chunk or
\* synthesis, is made for it.
C3_EmptyInputRejected ==
    (pc # "idle" /\ (body.kind = "undefined"
                     \/ (body.kind = "array" /\ Len(body.items) = 0))) =>
        /\ pc = "done"
        /\ response.status = 400
        /\ response.success = FALSE
        /\ response.error = "No comments"
        /\ response.data = NoData
        /\ NoExternalCall
        /\ finalReply = NoReply

\* Witness of C3: an empty list was answered 400.
C3_Witness ==
    /\ pc = "done"
    /\ body.kind = "array"
    /\ Len(body.items) = 0
    /\ response.status = 400

\* Chunk i's call was answered with a text that, fences stripped, is not JSON.
ChunkUnparseable(i) ==
    /\ task[i] # "inflight"
    /\ chunkReply[i].ok
    /\ ~JSONparse(Clean(chunkReply[i].text)).ok

\* Chunk i's call was answered with a text that parses to a JSON object.
ChunkParsedObject(i) ==
    /\ task[i] # "inflight"
    /\ chunkReply[i].ok
    /\ JSONparse(Clean(chunkReply[i].text)).ok
    /\ JSONparse(Clean(chunkReply[i].text)).value.kind = "object"

\* The synthesis call was answered with a text that parses to a JSON object.
SynthesisParsedObject ==
    /\ finalReply.ok
    /\ JSONparse(Clean(finalReply.text)).ok
    /\ JSONparse(Clean(finalReply.text)).value.kind = "object"

ZeroRecord ==
    [kind |-> "object", has |-> {"pos", "neg", "neu", "praise", "pain", "themes"},
     pos |-> 0, neg |-> 0, neu |-> 0, praise |-> <<>>, pain |-> <<>>,
     themes |-> <<>>, positivePercentage |-> Num(0),
     negativePercentage |-> Num(0), neutralPercentage |-> Num(0),
     sentimentSummary_premium |-> ""]

\* C4: a chunk whose response is not parseable JSON yields the record
\* {pos:0,neg:0,neu:0,praise:[],pain:[],themes:[]}, that record is the chunk's
\* entry in the aggregated partials, and when every other chunk parsed to an
\* object and the synthesis response parsed to an object the request ends 200.
C4_UnparseableChunkFallsBack ==
    \A i \in 1..Len(task) :
        ChunkUnparseable(i) =>
            /\ task[i] = "fulfilled"
            /\ taskValue[i] = ZeroRecord
            /\ BarrierFulfilled => partials[i] = ZeroRecord
            /\ (\A k \in 1..Len(task) : k # i =>
                    ChunkUnparseable(k) \/ ChunkParsedObject(k)) =>
                  /\ pc \in {"awaitFinal", "done"}
                  /\ finalCalls = 1
                  /\ pc = "awaitFinal" => response = NoResponse
                  /\ (pc = "done" /\ SynthesisParsedObject) =>
                        response.status = 200 /\ response.success = TRUE

\* Witness of C4: of two chunks the first answered NOT JSON, the second
\* parsed, and the request ended 200.
C4_Witness ==
    /\ Len(task) = 2
    /\ ChunkUnparseable(1)
    /\ chunkReply[1].text = NotJson
    /\ ChunkParsedObject(2)
    /\ partials[1] = ZeroRecord
    /\ response.status = 200

\* C5: when the synthesis response is not parseable JSON the request ends in
\* a 500 with success:false and the parse error's message; never in a 200,
\* and no report is sent.
C5_SynthesisParseFailureIsFatal ==
    (finalReply.ok /\ ~JSONparse(Clean(finalReply.text)).ok) =>
        /\ pc = "done"
        /\ response.status = 500
        /\ response.success = FALSE
        /\ response.error = "SyntaxError"
        /\ response.data = NoData

\* Witness of C5: the synthesis call answered NOT JSON after two chunks
\* parsed, and the request ended 500.
C5_Witness ==
    /\ finalReply.ok
    /\ finalReply.text = NotJson
    /\ Len(task) = 2
    /\ \A k \in 1..2 : ChunkParsedObject(k)
    /\ response.status = 500

RECURSIVE SumCalls(_)
SumCalls(cc) == IF cc = <<>> THEN 0 ELSE Head(cc) + SumCalls(Tail(cc))

\* C9: with N >= 1 chunks every chunk's call is issued exactly once, all N
\* before the handler waits for any; the synthesis call is issued at most
\* once and only when all N chunk calls have completed; a request answered
\* 200 made exactly N + 1 external calls.
C9_CallDiscipline ==
    NonEmptyRequest =>
        /\ Len(chunkCalls) = Len(chunks)
        /\ \A i \in 1..Len(chunks) : chunkCalls[i] = 1
        /\ finalCalls \in {0, 1}
        /\ finalCalls = 1 =>
              \A i \in 1..Len(chunks) : task[i] # "inflight" /\ chunkReply[i].ok
        /\ response.status = 200 =>
              SumCalls(chunkCalls) + finalCalls = Len(chunks) + 1

\* Witness of C9: three chunks, one of them unparseable, one synthesis call,
\* answered 200.
C9_Witness ==
    /\ Len(chunks) = 3
    /\ \E i \in 1..3 : ChunkUnparseable(i)
    /\ SumCalls(chunkCalls) + finalCalls = 4
    /\ response.status = 200

\* The lists of the chunk tasks' values, in chunk order (a missing list
\* counts as empty).
RECURSIVE ListsInChunkOrder(_, _)
ListsInChunkOrder(f, i) ==
    IF i > Len(taskValue) THEN <<>>
    ELSE (IF f \in taskValue[i].has THEN taskValue[i][f] ELSE <<>>)
         \o ListsInChunkOrder(f, i + 1)

\* The aggregate was built.
AggregateBuilt == BarrierFulfilled /\ finalCalls = 1

\* C10: whatever order the chunk calls complete in, the aggregate's praise,
\* pain and themes are the chunks' lists concatenated in chunk order,
\* duplicates and inner order kept.
C10_ListsInChunkOrder ==
    AggregateBuilt =>
        /\ aggregate.praise = ListsInChunkOrder("praise", 1)
        /\ aggregate.pain = ListsInChunkOrder("pain", 1)
        /\ aggregate.themes = ListsInChunkOrder("themes", 1)

\* Witness of C10: chunk 2 completed before chunk 1, and the aggregate keeps
\* chunk 1's praise ["a","d"] before chunk 2's ["a"].
C10_Witness ==
    /\ AggregateBuilt
    /\ settled = << 2, 1 >>
    /\ aggregate.praise = << "a", "d", "a" >>
    /\ aggregate.themes = << "c", "c" >>

\* Sum and count of field f over the partials, a missing f counted as 0.
RECURSIVE SumOrZero(_, _)
SumOrZero(f, k) ==
    IF k > Len(partials) THEN 0
    ELSE (IF f \in partials[k].has THEN partials[k][f] ELSE 0)
         + SumOrZero(f, k + 1)

\* round(mean of f over the partials), as the number the response carries.
RoundedMean(f) ==
    [t |-> "number",
     n |-> (2 * SumOrZero(f, 1) + Len(partials)) \div (2 * Len(partials))]

\* C2: in every 200 response the three percentages of data are
\* round(mean of pos, neg, neu over the PartialResults), whatever the
\* synthesis response carried for them.
C2_PercentagesAreRoundedMeans ==
    response.status = 200 =>
        /\ response.data.positivePercentage = RoundedMean("pos")
        /\ response.data.negativePercentage = RoundedMean("neg")
        /\ response.data.neutralPercentage = RoundedMean("neu")

\* Chunk i's task met an error: its call failed, its response did not parse,
\* or it parsed to a value that is no record.
ChunkErred(i) ==
    /\ task[i] # "inflight"
    /\ \/ ~chunkReply[i].ok
       \/ ChunkUnparseable(i)
       \/ JSONparse(Clean(chunkReply[i].text)).value.kind = "null"

\* C6 as stated: whatever error a chunk task meets, it yields the fallback
\* value, no chunk task fails, and the request is not ended by a chunk (a 500
\* comes only from the synthesis stage).
C6_AnyChunkErrorContained ==
    /\ \A i \in 1..Len(task) :
          /\ task[i] # "rejected"
          /\ ChunkErred(i) => taskValue[i] = ZeroRecord
    /\ (NonEmptyRequest /\ response.status = 500) => finalCalls = 1

\* C6 amended: a chunk response that does not parse yields the fallback value
\* and no response text makes a chunk task fail; a failed call makes the
\* task fail and the request end in a 500 without a synthesis call; a
\* response that parses to null is handed on as null and the request ends in
\* a 500 without a synthesis call once the barrier is fulfilled.
C6_ParseErrorsContained ==
    \A i \in 1..Len(task) :
        task[i] # "inflight" =>
            /\ chunkReply[i].ok <=> task[i] = "fulfilled"
            /\ ChunkUnparseable(i) => taskValue[i] = ZeroRecord
            /\ ~chunkReply[i].ok =>
                  /\ pc = "done"
                  /\ response.status = 500
                  /\ response.success = FALSE
                  /\ finalCalls = 0
            /\ (chunkReply[i].ok /\ taskValue[i].kind = "null"
                    /\ BarrierFulfilled) =>
                  /\ pc = "done"
                  /\ response.status = 500
                  /\ response.error = "TypeError"
                  /\ finalCalls = 0

\* Witness of C6: of two chunks the first answered NOT JSON and was replaced
\* by the fallback, then the second chunk's call failed and the request ended
\* 500.
C6_Witness ==
    /\ Len(task) = 2
    /\ settled = << 1, 2 >>
    /\ ChunkUnparseable(1)
    /\ taskValue[1] = ZeroRecord
    /\ task[2] = "rejected"
    /\ response.status = 500
    /\ response.error = "UpstreamError"

\* C7: a field missing from a parsed chunk object counts as its default in
\* the aggregate: a missing pos, neg or neu adds 0 to the sum, so the three
\* averages and the percentages sent are numbers; a missing list adds no
\* element.
C7_MissingFieldsDefault ==
    AggregateBuilt =>
        /\ aggregate.posAvg = [nan |-> FALSE, num |-> SumOrZero("pos", 1),
                               den |-> Len(partials)]
        /\ aggregate.negAvg = [nan |-> FALSE, num |-> SumOrZero("neg", 1),
                               den |-> Len(partials)]
        /\ aggregate.neuAvg = [nan |-> FALSE, num |-> SumOrZero("neu", 1),
                               den |-> Len(partials)]
        /\ aggregate.praise = ListsInChunkOrder("praise", 1)
        /\ aggregate.pain = ListsInChunkOrder("pain", 1)
        /\ aggregate.themes = ListsInChunkOrder("themes", 1)
        /\ response.status = 200 /\ response.data.kind = "object" =>
              /\ response.data.positivePercentage.t = "number"
              /\ response.data.negativePercentage.t = "number"
              /\ response.data.neutralPercentage.t = "number"

\* JSON documents the external model may wrap in fences.
FencedDocs == {DocA, DocB, DocPartial, DocTicks, DocReport, DocReportBare}
FenceTags == JsonTags \cup {""}

\* C8: in both stages a response that is a valid JSON document wrapped in
\* fences (json tag in any casing, or none) parses to the value of the
\* document itself.
C8_FencedParsesAsUnwrapped ==
    \A doc \in FencedDocs, tag \in FenceTags :
        /\ \A i \in 1..Len(task) :
              (task[i] # "inflight" /\ chunkReply[i].ok
                    /\ chunkReply[i].text = Fenced(tag, doc)) =>
                 /\ task[i] = "fulfilled"
                 /\ taskValue[i] = JSONparse(doc).value
        /\ (finalReply.ok /\ finalReply.text = Fenced(tag, doc)) =>
              /\ response.status = 200
              /\ response.data.sentimentSummary_premium
                    = JSONparse(doc).value.sentimentSummary_premium

====
